---------------------------- MODULE Spec2Model ----------------------------
(***************************************************************************)
(* A model of shinbukan-ics (src/src/main.rs): the scraper that reads one  *)
(* HTML calendar grid per month, turns each day cell into events, and      *)
(* writes the events of 14 months as one VCALENDAR.                        *)
(*                                                                         *)
(* Strings are sequences of one-character strings, so that trim, split and *)
(* integer parsing are computed character by character as Rust does.       *)
(* A cell is read as the DOM scraper hands it over: a sequence of child    *)
(* nodes (text, element, comment).  A Rust panic (unwrap on None or Err,   *)
(* slice index out of range) is a state of its own: pc = "panicked".       *)
(*                                                                         *)
(* Three specifications share the variables:                               *)
(*   Spec      parse_calendar over one month, cell by cell, node by node;  *)
(*   SpecText  the text-node arm of parse_cell over a wide set of texts;   *)
(*   SpecMain  main: the buffered fan-out over the months and the output.  *)
(***************************************************************************)
EXTENDS Integers, Sequences, FiniteSets, Bags, TLC

(***************************************************************************)
(* Bounds of the model.                                                    *)
(***************************************************************************)
\* cells of one document that parse_calendar visits
MaxCells == 3
\* sibling nodes (after the day numbers) read over the whole document
MaxChildren == 3
\* length of the raw character sequences tried as text nodes
MaxLen == 4
\* months of one run (NUM_MONTHS is 14 in the program)
MaxMonths == 3

\* stream::buffered(16): at most this many handle_month futures in flight
BUFFERED == 16

(***************************************************************************)
(* Characters and strings.                                                 *)
(***************************************************************************)
Digits == <<"0", "1", "2", "3", "4", "5", "6", "7", "8", "9">>

IsDigit(c) == \E i \in 1..10 : Digits[i] = c

DigitVal(c) == (CHOOSE i \in 1..10 : Digits[i] = c) - 1

\* char::is_whitespace, on the characters the model uses
IsWhitespace(c) == c \in {" ", "\n", "\t"}

\* str::trim: drop leading and trailing whitespace
Trim(s) ==
    LET keep == {i \in 1..Len(s) : ~IsWhitespace(s[i])}
    IN  IF keep = {} THEN <<>>
        ELSE LET lo == CHOOSE i \in keep : \A j \in keep : i <= j
                 hi == CHOOSE i \in keep : \A j \in keep : j <= i
             IN  SubSeq(s, lo, hi)

\* str::split_once: split at the first character that is in seps
SplitOnce(s, seps) ==
    LET hits == {i \in 1..Len(s) : s[i] \in seps}
    IN  IF hits = {} THEN [found |-> FALSE, head |-> s, tail |-> <<>>]
        ELSE LET p == CHOOSE i \in hits : \A j \in hits : i <= j
             IN  [found |-> TRUE, head |-> SubSeq(s, 1, p - 1),
                  tail |-> SubSeq(s, p + 1, Len(s))]

RECURSIVE DecimalValue(_)
DecimalValue(ds) ==
    IF ds = <<>> THEN 0
    ELSE 10 * DecimalValue(SubSeq(ds, 1, Len(ds) - 1)) + DigitVal(ds[Len(ds)])

\* <usize as FromStr>::from_str: an optional '+', then one or more decimal
\* digits; anything else (empty, a sign alone, a letter, a space) is an Err.
\* Digit strings beyond usize::MAX (an Err too) are longer than any text of
\* the model.
ParseUsize(s) ==
    LET ds == IF s # <<>> /\ s[1] = "+" THEN Tail(s) ELSE s
    IN  IF ds # <<>> /\ \A i \in 1..Len(ds) : IsDigit(ds[i])
        THEN [ok |-> TRUE, val |-> DecimalValue(ds)]
        ELSE [ok |-> FALSE, val |-> 0]

(***************************************************************************)
(* The DOM nodes a cell hands to parse_cell (scraper::Node).  attr(..) =   *)
(* None is the attribute value "none"; texts are the text nodes among an   *)
(* element's descendants, in document order.                               *)
(***************************************************************************)
TextNode(t) ==
    [type |-> "text", txt |-> t, name |-> "", size |-> "none",
     color |-> "none", texts |-> <<>>]

ElementNode(name, size, color, texts) ==
    [type |-> "element", txt |-> <<>>, name |-> name, size |-> size,
     color |-> color, texts |-> texts]

CommentNode ==
    [type |-> "comment", txt |-> <<>>, name |-> "", size |-> "none",
     color |-> "none", texts |-> <<>>]

\* children.next() = None: the cell has no (more) children
NoNode ==
    [type |-> "none", txt |-> <<>>, name |-> "", size |-> "none",
     color |-> "none", texts |-> <<>>]

(***************************************************************************)
(* Time, Event, MonthResult.                                               *)
(***************************************************************************)
Time(hours, minutes) == [hours |-> hours, minutes |-> minutes]

Timed(day, from, to, text) ==
    [kind |-> "Timed", day |-> day, from |-> from, to |-> to, text |-> text]

\* from and to are not fields of FullDay; they are kept at 0:0 so that all
\* events are records of one shape
FullDay(day, text) ==
    [kind |-> "FullDay", day |-> day, from |-> Time(0, 0), to |-> Time(0, 0),
     text |-> text]

\* Event::append: one space, then the text, on either variant
append(e, txt) == [e EXCEPT !.text = @ \o <<" ">> \o txt]

MonthResult_new(year, month) ==
    [year |-> year, month |-> month, events |-> <<>>, errors |-> <<>>]

\* hours are written in 12-hour form without am/pm: below 8 means afternoon
NormalizeHours(t) == IF t.hours < 8 THEN [t EXCEPT !.hours = @ + 12] ELSE t

event(res, day, from, to, text) ==
    [res EXCEPT !.events =
        Append(@, Timed(day, NormalizeHours(from), NormalizeHours(to), text))]

full_day_event(res, day, text) ==
    [res EXCEPT !.events = Append(@, FullDay(day, text))]

\* self.events.last_mut().unwrap().append(text): ok = FALSE is the panic of
\* unwrap on an empty event list
append_to_last_event(res, text) ==
    IF res.events = <<>>
    THEN [ok |-> FALSE, res |-> res]
    ELSE [ok |-> TRUE,
          res |-> [res EXCEPT !.events[Len(res.events)] = append(@, text)]]

\* error that keeps only the newest error
error_overwrites(res, err) == [res EXCEPT !.errors = <<err>>]

error(res, err) == [res EXCEPT !.errors = Append(@, err)]

\* the anyhow! errors of the program, by message and arguments
ErrTwice(day) == [msg |-> "Parsed day twice", day |-> day, what |-> NoNode]
ErrNotParsed(day) == [msg |-> "Did not parse day", day |-> day, what |-> NoNode]
ErrElement(day, elt) ==
    [msg |-> "Encountered unexpected element while parsing day",
     day |-> day, what |-> elt]
ErrNode(day, node) ==
    [msg |-> "Encountered unexpected node while parsing day",
     day |-> day, what |-> node]
\* the reqwest error of a failed fetch
ErrFetch == [msg |-> "fetch failed", day |-> 0, what |-> NoNode]

IsLeapYear(y) == (y % 4 = 0 /\ y % 100 # 0) \/ y % 400 = 0

\* (first day of the next month) - (first day of this month), in days
DaysIn(year, month) ==
    IF month = 2 THEN (IF IsLeapYear(year) THEN 29 ELSE 28)
    ELSE IF month \in {4, 6, 9, 11} THEN 30 ELSE 31

days_in_month(res) == DaysIn(res.year, res.month)

(***************************************************************************)
(* parse_time and the arms of parse_cell.  Every result carries ok: FALSE  *)
(* is a panic, and res is then the MonthResult as the panic found it.      *)
(***************************************************************************)
parse_time(time) ==
    LET sp == SplitOnce(time, {":"})
    IN  IF ~sp.found
        THEN LET h == ParseUsize(time)
             IN  [ok |-> h.ok, time |-> Time(h.val, 0)]
        ELSE LET h == ParseUsize(sp.head)
                 m == ParseUsize(sp.tail)
             IN  [ok |-> h.ok /\ m.ok, time |-> Time(h.val, m.val)]

\* get_day_number: some = FALSE is None (not a text node); ok = FALSE is the
\* panic of parse().unwrap() on a text that is no number
get_day_number(elt) ==
    IF elt.type # "text"
    THEN [some |-> FALSE, ok |-> TRUE, val |-> 0]
    ELSE LET n == ParseUsize(Trim(elt.txt))
         IN  [some |-> n.ok, ok |-> n.ok, val |-> n.val]

\* the Node::Text arm (lines 217-229)
parse_cell_text(res, day_num, txt) ==
    LET t == Trim(txt)
        sp == SplitOnce(t, {" "})
        tm == SplitOnce(sp.head, {"-", "~"})
        from == parse_time(tm.head)
        to == parse_time(tm.tail)
    IN  IF t = <<>> THEN [ok |-> TRUE, res |-> res]
        ELSE IF ~sp.found THEN [ok |-> TRUE, res |-> full_day_event(res, day_num, t)]
        ELSE IF ~tm.found THEN [ok |-> TRUE, res |-> full_day_event(res, day_num, t)]
        ELSE IF ~(from.ok /\ to.ok) THEN [ok |-> FALSE, res |-> res]
        ELSE [ok |-> TRUE, res |-> event(res, day_num, from.time, to.time, sp.tail)]

\* the font color=red arm (lines 208-214): every descendant text node is
\* appended to the last event of the month result
RECURSIVE parse_cell_highlight(_, _)
parse_cell_highlight(res, texts) ==
    IF texts = <<>> THEN [ok |-> TRUE, res |-> res]
    ELSE LET r == append_to_last_event(res, Head(texts))
         IN  IF r.ok THEN parse_cell_highlight(r.res, Tail(texts)) ELSE r

\* one turn of the while loop of parse_cell (lines 203-232) on child c
parse_cell_child(res, day_num, c) ==
    IF c.type = "element"
    THEN IF c.name = "br" THEN [ok |-> TRUE, res |-> res]
         ELSE IF c.name = "font" /\ c.size = "-1" THEN [ok |-> TRUE, res |-> res]
         ELSE IF c.name = "font" /\ c.color = "red"
              THEN parse_cell_highlight(res, c.texts)
         ELSE [ok |-> TRUE, res |-> error(res, ErrElement(day_num, c))]
    ELSE IF c.type = "text" THEN parse_cell_text(res, day_num, c.txt)
    ELSE [ok |-> TRUE, res |-> error(res, ErrNode(day_num, c))]

\* parse_cell up to the loop (lines 196-202) on the first child of the cell:
\* none = TRUE is "return None", ok = FALSE the panic of get_day_number
parse_cell_first(first) ==
    IF first.type = "none" THEN [none |-> TRUE, ok |-> TRUE, day_num |-> 0]
    ELSE LET d == get_day_number(first)
         IN  [none |-> d.ok /\ ~d.some, ok |-> d.ok, day_num |-> d.val]

\* mark_day with the else branch of line 168 left empty: a second cell for
\* the same day goes unreported
mark_day_silent(res, parsed_days, day) ==
    IF day < 1 \/ day > Len(parsed_days)
    THEN [ok |-> FALSE, res |-> res, parsed_days |-> parsed_days]
    ELSE [ok |-> TRUE, res |-> res,
          parsed_days |-> [parsed_days EXCEPT ![day] = TRUE]]

\* the body of parse_calendar's loop for a cell that returned Some(day)
\* (lines 165-171); ok = FALSE is the panic of parsed_days[day - 1] when
\* day is 0 (subtraction overflow) or beyond the month (index out of range)
mark_day(res, parsed_days, day) ==
    IF day < 1 \/ day > Len(parsed_days)
    THEN [ok |-> FALSE, res |-> res, parsed_days |-> parsed_days]
    ELSE IF ~parsed_days[day]
    THEN [ok |-> TRUE, res |-> res,
          parsed_days |-> [parsed_days EXCEPT ![day] = TRUE]]
    ELSE [ok |-> TRUE, res |-> error(res, ErrTwice(day)),
          parsed_days |-> parsed_days]

\* the closing loop of parse_calendar (lines 173-177), from day onwards
RECURSIVE coverage_errors(_, _, _)
coverage_errors(res, parsed_days, day) ==
    IF day > Len(parsed_days) THEN res
    ELSE coverage_errors(
            IF ~parsed_days[day] THEN error(res, ErrNotParsed(day)) ELSE res,
            parsed_days, day + 1)

(***************************************************************************)
(* Serialization (Event::as_ics, MonthResult::events_as_ics).  A VEVENT is *)
(* a record of its lines.  The UID hashes every field of the event, so it  *)
(* is the event itself here; DTSTAMP (the clock) is left out; the URL is   *)
(* the year and month it is formatted from (REMOTEUSER and REMOTEPASS are  *)
(* taken to be set, as the fetch before needed them).                      *)
(***************************************************************************)
\* chrono_tz::Asia::Tokyo is UTC+9 all year: the same instant in UTC
ToUtc(y, m, d, h, mi) ==
    IF h >= 9 THEN <<y, m, d, h - 9, mi>>
    ELSE IF d > 1 THEN <<y, m, d - 1, h + 15, mi>>
    ELSE IF m > 1 THEN <<y, m - 1, DaysIn(y, m - 1), h + 15, mi>>
    ELSE <<y - 1, 12, 31, h + 15, mi>>

\* with_ymd_and_hms(..) is LocalResult::Single exactly for a real date and
\* a real time of day; unwrap panics on anything else
ValidYmdHm(y, m, d, t) ==
    /\ m \in 1..12 /\ d \in 1..DaysIn(y, m)
    /\ t.hours \in 0..23 /\ t.minutes \in 0..59

\* ok = FALSE is the panic of with_ymd_and_hms(..).unwrap()
as_ics(e, year, month) ==
    IF e.kind = "FullDay"
    THEN [ok |-> TRUE,
          rec |-> [uid |-> e,
                   dtstart |-> [value |-> "DATE", at |-> <<year, month, e.day, 0, 0>>],
                   dtend |-> [value |-> "DATE", at |-> <<year, month, e.day, 0, 0>>],
                   summary |-> e.text, url |-> <<year, month>>]]
    ELSE IF ~(ValidYmdHm(year, month, e.day, e.from)
              /\ ValidYmdHm(year, month, e.day, e.to))
    THEN [ok |-> FALSE,
          rec |-> [uid |-> e,
                   dtstart |-> [value |-> "", at |-> <<0, 0, 0, 0, 0>>],
                   dtend |-> [value |-> "", at |-> <<0, 0, 0, 0, 0>>],
                   summary |-> e.text, url |-> <<year, month>>]]
    ELSE [ok |-> TRUE,
          rec |-> [uid |-> e,
                   dtstart |-> [value |-> "UTC",
                                at |-> ToUtc(year, month, e.day,
                                             e.from.hours, e.from.minutes)],
                   dtend |-> [value |-> "UTC",
                              at |-> ToUtc(year, month, e.day,
                                           e.to.hours, e.to.minutes)],
                   summary |-> e.text, url |-> <<year, month>>]]

\* the records of the events in insertion order; ok = FALSE if one as_ics
\* panics (nothing of the month is printed then: the string is built first)
events_as_ics(r) ==
    [ok |-> \A i \in 1..Len(r.events) : as_ics(r.events[i], r.year, r.month).ok,
     recs |-> [i \in 1..Len(r.events) |->
                  as_ics(r.events[i], r.year, r.month).rec]]

(***************************************************************************)
(* State.                                                                  *)
(*   parse_calendar on one month:                                          *)
(*     res          the MonthResult being filled                           *)
(*     parsed_days  the coverage vector (index = day)                      *)
(*     pc           "cells" between two cells, "children" inside the loop  *)
(*                  of parse_cell, "done" after parse_calendar returned,   *)
(*                  "panicked" after a panic                               *)
(*     day_num      the day number of the cell being read                  *)
(*     node         the node children.next() gave last (NoNode: None)      *)
(*     ncells, nchildren   cells and sibling nodes read so far              *)
(*     returned     history: the bag of the days parse_cell returned       *)
(*     cell_events  history: events pushed so far by the cell being read   *)
(*   main:                                                                 *)
(*     first_date   <<year, month>> of today - 2 months                    *)
(*     task         per month index: "waiting" (future not yet pulled from *)
(*                  the stream), "fetching" (awaiting the document),       *)
(*                  "done" (handle_month returned, output queued),         *)
(*                  "yielded" (output handed to collect)                   *)
(*     cal          per month index, what fetch_calendar_for returned:     *)
(*                  "pending", "error", or the name of a document          *)
(*     finished     history: the month indices in the order their          *)
(*                  handle_month returned                                  *)
(*     output       per month index, the MonthResult handle_month returned *)
(*     results      the Vec<MonthResult> that collect() builds             *)
(*     mainpc       "collect", "print", "exited", "panicked"               *)
(*     stdout       the lines and event records printed so far             *)
(*     printed      months whose events have been printed                  *)
(*     had_errors   the flag of main                                       *)
(*     exit_ok      the Result main returned (meaningful once exited)      *)
(***************************************************************************)
VARIABLES res, parsed_days, pc, day_num, node, ncells, nchildren, returned,
          cell_events,
          first_date, task, cal, finished, output, results, mainpc, stdout,
          printed, had_errors, exit_ok

pvars == <<res, parsed_days, pc, day_num, node, ncells, nchildren, returned,
           cell_events>>
mvars == <<first_date, task, cal, finished, output, results, mainpc, stdout,
           printed, had_errors, exit_ok>>
vars == <<res, parsed_days, pc, day_num, node, ncells, nchildren, returned,
          cell_events,
          first_date, task, cal, finished, output, results, mainpc, stdout,
          printed, had_errors, exit_ok>>

(***************************************************************************)
(* Inputs of the cell-level specification.                                 *)
(***************************************************************************)
\* a leap February (29 days) and an April (30 days)
YearMonths == {<<2024, 2>>, <<2024, 4>>}

Br == ElementNode("br", "none", "none", <<>>)
FontSmall == ElementNode("font", "-1", "none", <<<<"s", "m">>>>)
FontRed == ElementNode("font", "none", "red", <<<<"(", "x", ")">>>>)
FontPlain == ElementNode("font", "none", "none", <<>>)

\* first children of a cell: none at all, an element, day numbers (some
\* with surrounding whitespace, one beyond February, zero), a blank text
FirstNodes ==
    {NoNode, Br,
     TextNode(<<"1">>), TextNode(<<" ", "2", "\n">>), TextNode(<<"3", "0">>),
     TextNode(<<"0">>), TextNode(<<" ">>)}

\* siblings after the day number
ChildNodes ==
    {Br, FontSmall, FontRed, FontPlain, CommentNode,
     TextNode(<<"O", "f", "f">>),
     TextNode(<<"\n", " ">>),
     TextNode(<<"2", "-", "9", ":", "3", "0", " ", "A">>),
     TextNode(<<"a", "-", "b", " ", "c">>)}

Idle_Main ==
    /\ first_date = <<2024, 1>>
    /\ task = <<>>
    /\ cal = <<>>
    /\ finished = <<>>
    /\ output = <<>>
    /\ results = <<>>
    /\ mainpc = "idle"
    /\ stdout = <<>>
    /\ printed = 0
    /\ had_errors = FALSE
    /\ exit_ok = TRUE

\* parse_calendar lines 161-163: a fresh MonthResult (as handle_month and the
\* fixture test make it) and an all-false coverage vector
Init ==
    /\ \E ym \in YearMonths :
          /\ res = MonthResult_new(ym[1], ym[2])
          /\ parsed_days = [d \in 1..DaysIn(ym[1], ym[2]) |-> FALSE]
    /\ pc = "cells"
    /\ day_num = 0
    /\ node = NoNode
    /\ ncells = 0
    /\ nchildren = 0
    /\ returned = EmptyBag
    /\ cell_events = 0
    /\ Idle_Main

\* doc.select yields a cell; parse_cell reads its first child (lines 164-165,
\* 196-202)
CellFirst(first) ==
    /\ pc = "cells"
    /\ ncells < MaxCells
    /\ LET r == parse_cell_first(first)
       IN  /\ pc' = IF ~r.ok THEN "panicked"
                    ELSE IF r.none THEN "cells" ELSE "children"
           /\ day_num' = IF r.ok /\ ~r.none THEN r.day_num ELSE day_num
    /\ node' = first
    /\ ncells' = ncells + 1
    /\ cell_events' = 0
    /\ UNCHANGED <<res, parsed_days, nchildren, returned>>
    /\ UNCHANGED mvars

\* children.next() yields a sibling c; one turn of the while loop.  The
\* parser joins adjacent text, so no text node follows a text node.
CellChild(c) ==
    /\ pc = "children"
    /\ nchildren < MaxChildren
    /\ ~(node.type = "text" /\ c.type = "text")
    /\ LET r == parse_cell_child(res, day_num, c)
       IN  /\ res' = r.res
           /\ pc' = IF r.ok THEN "children" ELSE "panicked"
           /\ cell_events' = cell_events + Len(r.res.events) - Len(res.events)
    /\ node' = c
    /\ nchildren' = nchildren + 1
    /\ UNCHANGED <<parsed_days, day_num, ncells, returned>>
    /\ UNCHANGED mvars

\* children.next() is None: parse_cell returns Some(day_num) and
\* parse_calendar marks the day (lines 233, 165-171)
CellEnd ==
    /\ pc = "children"
    /\ LET r == mark_day(res, parsed_days, day_num)
       IN  /\ res' = r.res
           /\ parsed_days' = r.parsed_days
           /\ pc' = IF r.ok THEN "cells" ELSE "panicked"
    /\ node' = NoNode
    /\ returned' = returned (+) SetToBag({day_num})
    /\ UNCHANGED <<day_num, ncells, nchildren, cell_events>>
    /\ UNCHANGED mvars

\* doc.select is exhausted: the coverage loop, then parse_calendar returns
Coverage ==
    /\ pc = "cells"
    /\ res' = coverage_errors(res, parsed_days, 1)
    /\ pc' = "done"
    /\ UNCHANGED <<parsed_days, day_num, node, ncells, nchildren, returned,
                   cell_events>>
    /\ UNCHANGED mvars

Next ==
    \/ \E first \in FirstNodes : CellFirst(first)
    \/ \E c \in ChildNodes : CellChild(c)
    \/ CellEnd
    \/ Coverage

Spec == Init /\ [][Next]_vars

(***************************************************************************)
(* Properties of parse_calendar and parse_cell, checked under Spec.        *)
(***************************************************************************)
Range(f) == {f[i] : i \in DOMAIN f}

\* the node is the highlight element of line 208 (the size=-1 arm is tried
\* first)
IsHighlight(n) ==
    /\ n.type = "element" /\ n.name = "font"
    /\ n.size # "-1" /\ n.color = "red"

\* the node is an element that none of the three arms of lines 206-208 takes
IsUnrecognized(n) ==
    /\ n.type = "element"
    /\ n.name # "br"
    /\ ~(n.name = "font" /\ (n.size = "-1" \/ n.color = "red"))

\* this step is a turn of the loop of parse_cell, on node'
ChildStep == pc = "children" /\ nchildren' = nchildren + 1

\* this step is parse_cell reading the first child of a new cell, node'
FirstStep == pc = "cells" /\ ncells' = ncells + 1

CoveredOnce(d) ==
    /\ CopiesIn(d, returned) = 1
    /\ ErrNotParsed(d) \notin Range(res.errors)
    /\ ErrTwice(d) \notin Range(res.errors)
NotCoveredSignal(d) == ErrNotParsed(d) \in Range(res.errors)
CoveredTwiceSignal(d) == ErrTwice(d) \in Range(res.errors)

\* C1: once parse_calendar has returned, every day of the month has exactly
\* one of three signals: returned by exactly one cell with no coverage error
\* naming it, a "Did not parse day d" error, a "Parsed day d twice" error.
C1_ExactlyOneSignal ==
    pc = "done" =>
        \A d \in 1..days_in_month(res) :
            Cardinality({k \in {"once", "missing", "twice"} :
                \/ k = "once" /\ CoveredOnce(d)
                \/ k = "missing" /\ NotCoveredSignal(d)
                \/ k = "twice" /\ CoveredTwiceSignal(d)}) = 1

\* parse_calendar returned on a document with a day covered once, a day
\* covered twice and a day not covered
C1_Witness ==
    /\ pc = "done"
    /\ \E d \in 1..days_in_month(res) : CoveredOnce(d)
    /\ \E d \in 1..days_in_month(res) :
          CopiesIn(d, returned) = 2 /\ CoveredTwiceSignal(d)
    /\ \E d \in 1..days_in_month(res) :
          CopiesIn(d, returned) = 0 /\ NotCoveredSignal(d)

\* C2: a highlight element with text, met before the cell has produced any
\* event, records an error for the month and the scan goes on (no panic, no
\* silent pass).
C2_HighlightBeforeEvent ==
    [][(ChildStep /\ IsHighlight(node') /\ node'.texts # <<>>
            /\ cell_events = 0)
        => (pc' = "children" /\ Len(res'.errors) = Len(res.errors) + 1)]_vars

\* C3: a highlight element changes no event that an earlier cell produced.
C3_HighlightStaysInCell ==
    [][(ChildStep /\ IsHighlight(node'))
        => \A i \in 1..(Len(res.events) - cell_events) :
              res'.events[i] = res.events[i]]_vars

\* the node is a text node whose trimmed content is an integer in
\* [1, days_in_month]
IsDayMarker(n) ==
    /\ n.type = "text"
    /\ ParseUsize(Trim(n.txt)).ok
    /\ ParseUsize(Trim(n.txt)).val \in 1..days_in_month(res)

\* C4: a cell whose first child is missing, is no text node, or is no
\* integer in [1, days_in_month] is skipped silently (no panic, month result
\* and coverage unchanged); so every event has its day in [1, days_in_month].
C4_NotADayCell ==
    /\ [][(FirstStep /\ ~IsDayMarker(node'))
            => (pc' = "cells" /\ res' = res /\ parsed_days' = parsed_days)]_vars
    /\ [](\A i \in 1..Len(res.events) :
            res.events[i].day \in 1..days_in_month(res))

\* C7: an unrecognized element adds exactly one unexpected-element error,
\* changes no event, and leaves parse_cell in its loop with the same day
\* number.
C7_UnexpectedElement ==
    [][(ChildStep /\ IsUnrecognized(node'))
        => /\ res'.errors = Append(res.errors, ErrElement(day_num, node'))
           /\ res'.events = res.events
           /\ pc' = "children"
           /\ day_num' = day_num]_vars

\* an unrecognized element was just read in a cell that had already produced
\* an event, and its error is the last of the list
C7_Witness ==
    /\ pc = "children"
    /\ IsUnrecognized(node)
    /\ cell_events >= 1
    /\ res.errors[Len(res.errors)] = ErrElement(day_num, node)

(***************************************************************************)
(* SpecText: the text arm of parse_cell on one text node, drawn from every *)
(* character sequence up to MaxLen over a small alphabet, from times       *)
(* joined by '-' or '~' with a label, and from the texts the               *)
(* documentation names.  It starts inside the cell of day 5 of an empty    *)
(* month result, after the day number and a <br>.                          *)
(***************************************************************************)
Alphabet == {"2", "9", ":", "-", "~", " ", "L"}

RawTexts == UNION {[1..n -> Alphabet] : n \in 1..MaxLen}

TimeTexts ==
    {<<"2", ":", "0", "0">>,
     <<"3", ":", "0", "0">>,
     <<"9", ":", "0", "0">>,
     <<"1", "0", ":", "3", "0">>,
     <<"1", "1", ":", "3", "0">>,
     <<"7">>,
     <<"8">>,
     <<"1", "2", ":", "0", "5">>,
     <<"2", "4", ":", "0", "0">>,
     <<"9", ":", "6", "0">>}

JoinedTexts ==
    {f \o <<sep>> \o t \o <<" ", "L", "e", "s", "s", "o", "n">> :
        f \in TimeTexts, sep \in {"-", "~"}, t \in TimeTexts}

NamedTexts ==
    {<<"A", "l", "l", "D", "a", "y", "L", "a", "b", "e", "l">>,
     <<"9", ":", "0", "0", "-", "1", "0", ":", "3", "0", " ", "L", "e", "s", "s", "o", "n">>,
     <<"2", ":", "0", "0", "-", "3", ":", "0", "0", " ", "L", "e", "s", "s", "o", "n">>,
     <<"2", ":", "0", "0", "-", "3", ":", "0", "0", " ", "E", "x", "t", "r", "a">>,
     <<"O", "p", "e", "n", " ", "d", "a", "y">>,
     <<"S", "e", "l", "f", "-", "d", "e", "f", "e", "n", "s", "e", " ", "c", "l", "a", "s", "s">>,
     <<"9", "-", "1", "0", " ", " ", "L", "e", "s", "s", "o", "n", " ", "\n">>,
     <<"9", "-", "1", "0", "-", "1", "1", " ", "L", "e", "s", "s", "o", "n">>,
     <<"+", "2", "~", "+", "3", " ", "L">>}

Texts == RawTexts \cup JoinedTexts \cup NamedTexts

Init_Text ==
    /\ res = MonthResult_new(2024, 2)
    /\ parsed_days = [d \in 1..DaysIn(2024, 2) |-> FALSE]
    /\ pc = "children"
    /\ day_num = 5
    /\ node = Br
    /\ ncells = 1
    /\ nchildren = 1
    /\ returned = EmptyBag
    /\ cell_events = 0
    /\ Idle_Main

\* the sibling after the day number and its <br> is the text node t
TextStep(t) ==
    /\ nchildren = 1
    /\ CellChild(TextNode(t))

Next_Text == \E t \in Texts : TextStep(t)

SpecText == Init_Text /\ [][Next_Text]_vars

(***************************************************************************)
(* Properties of the text arm, checked under SpecText.                     *)
(***************************************************************************)
TimeOfDay(t) == t.hours \in 0..23 /\ t.minutes \in 0..59

\* C5: every Time stored in a Timed event is a time of day (hour 0..23,
\* minute 0..59), so serializing a recorded event never fails.
C5_TimesOfDay ==
    \A i \in 1..Len(res.events) :
        /\ res.events[i].kind = "Timed" =>
              TimeOfDay(res.events[i].from) /\ TimeOfDay(res.events[i].to)
        /\ as_ics(res.events[i], res.year, res.month).ok

\* the position of the first character of s that is in seps (0: none)
FirstOf(s, seps) ==
    IF \E i \in 1..Len(s) : s[i] \in seps
    THEN CHOOSE i \in 1..Len(s) :
            s[i] \in seps /\ \A j \in 1..(i - 1) : s[j] \notin seps
    ELSE 0

\* s is one or more decimal digits, with or without a leading '+'
IsNumber(s) ==
    \E k \in 0..1 :
        /\ Len(s) > k
        /\ k = 1 => s[1] = "+"
        /\ \A i \in (k + 1)..Len(s) : IsDigit(s[i])

\* the number s writes (any '+' dropped)
NumberOf(s) == DecimalValue(SelectSeq(s, IsDigit))

\* s is "H" or "H:M"
IsTimeText(s) ==
    LET c == FirstOf(s, {":"})
    IN  IF c = 0 THEN IsNumber(s)
        ELSE IsNumber(SubSeq(s, 1, c - 1)) /\ IsNumber(SubSeq(s, c + 1, Len(s)))

\* the hour and minute that "H" or "H:M" writes, with the hour moved to the
\* afternoon when it is below 8
AfternoonTime(s) ==
    LET c == FirstOf(s, {":"})
        h == IF c = 0 THEN NumberOf(s) ELSE NumberOf(SubSeq(s, 1, c - 1))
        m == IF c = 0 THEN 0 ELSE NumberOf(SubSeq(s, c + 1, Len(s)))
    IN  Time(IF h < 8 THEN h + 12 ELSE h, m)

\* the parts of a trimmed text t: head and rest around the first space, from
\* and to around the first '-' or '~' of head
HeadOf(t) == SubSeq(t, 1, FirstOf(t, {" "}) - 1)
RestOf(t) == SubSeq(t, FirstOf(t, {" "}) + 1, Len(t))
HasTimes(t) == FirstOf(t, {" "}) > 0 /\ FirstOf(HeadOf(t), {"-", "~"}) > 0
FromOf(t) == SubSeq(HeadOf(t), 1, FirstOf(HeadOf(t), {"-", "~"}) - 1)
ToOf(t) == SubSeq(HeadOf(t), FirstOf(HeadOf(t), {"-", "~"}) + 1, Len(HeadOf(t)))

\* this step reads a text node that is not blank
TextNodeStep ==
    ChildStep /\ node'.type = "text" /\ Trim(node'.txt) # <<>>

\* C6: every non-blank text node of a day cell appends exactly one event and
\* the loop goes on; the event is AllDay with the full text unless the part
\* before the first space splits on '-' or '~', and then Timed with label =
\* the rest and each endpoint moved to the afternoon when its hour is below
\* 8; and an endpoint written 11:30 gets hour 23.
C6_AsStated ==
    [][TextNodeStep =>
        LET t == Trim(node'.txt)
            e == res'.events[Len(res'.events)]
        IN  /\ Len(res'.events) = Len(res.events) + 1
            /\ pc' = "children"
            /\ ~HasTimes(t) => e = FullDay(day_num, t)
            /\ HasTimes(t) =>
                  /\ e.kind = "Timed" /\ e.day = day_num /\ e.text = RestOf(t)
                  /\ IsTimeText(FromOf(t)) => e.from = AfternoonTime(FromOf(t))
                  /\ IsTimeText(ToOf(t)) => e.to = AfternoonTime(ToOf(t))
                  /\ FromOf(t) = <<"1", "1", ":", "3", "0">> => e.from.hours = 23
                  /\ ToOf(t) = <<"1", "1", ":", "3", "0">> => e.to.hours = 23]_vars

(***************************************************************************)
(* parse_cell and parse_calendar on a whole cell and a whole document, as  *)
(* handle_month calls them: the same steps as CellFirst, CellChild,        *)
(* CellEnd and Coverage, run to the end or to the first panic.             *)
(***************************************************************************)
RECURSIVE parse_cell_loop(_, _, _)

\* the loop goes on after child result c unless it panicked
parse_cell_loop_after(c, day, rest) ==
    IF c.ok THEN parse_cell_loop(c.res, day, rest) ELSE c

\* the while loop of parse_cell over the siblings after the day number
parse_cell_loop(r, day, children) ==
    IF children = <<>> THEN [ok |-> TRUE, res |-> r]
    ELSE parse_cell_loop_after(parse_cell_child(r, day, Head(children)),
                               day, Tail(children))

\* line 233: Some(day_num), after loop result l
parse_cell_return(day, l) ==
    [ok |-> l.ok, some |-> TRUE, day |-> day, res |-> l.res]

\* parse_cell after the first child gave f; some = FALSE is None
parse_cell_after_first(f, r, cell) ==
    IF ~f.ok THEN [ok |-> FALSE, some |-> FALSE, day |-> 0, res |-> r]
    ELSE IF f.none THEN [ok |-> TRUE, some |-> FALSE, day |-> 0, res |-> r]
    ELSE parse_cell_return(f.day_num, parse_cell_loop(r, f.day_num, Tail(cell)))

parse_cell(r, cell) ==
    parse_cell_after_first(
        parse_cell_first(IF cell = <<>> THEN NoNode ELSE Head(cell)), r, cell)

RECURSIVE parse_calendar_cells(_, _, _)

\* lines 166-170 gave m: on to the next cell unless the index panicked
parse_calendar_after_mark(m, rest) ==
    IF m.ok THEN parse_calendar_cells(m.res, m.parsed_days, rest) ELSE m

\* parse_cell gave c for the cell before rest
parse_calendar_after_cell(c, days, rest) ==
    IF ~c.ok THEN [ok |-> FALSE, res |-> c.res, parsed_days |-> days]
    ELSE IF ~c.some THEN parse_calendar_cells(c.res, days, rest)
    ELSE parse_calendar_after_mark(mark_day(c.res, days, c.day), rest)

\* the for loop of lines 164-172
parse_calendar_cells(r, days, cells) ==
    IF cells = <<>> THEN [ok |-> TRUE, res |-> r, parsed_days |-> days]
    ELSE parse_calendar_after_cell(parse_cell(r, Head(cells)), days, Tail(cells))

\* lines 173-177 after the for loop gave c
parse_calendar_end(c) ==
    IF c.ok THEN [ok |-> TRUE, res |-> coverage_errors(c.res, c.parsed_days, 1)]
    ELSE [ok |-> FALSE, res |-> c.res]

\* doc: the cells that the selector table[summary=...] td yields, in order
parse_calendar(r, doc) ==
    parse_calendar_end(
        parse_calendar_cells(r, [d \in 1..days_in_month(r) |-> FALSE], doc))

\* handle_month without the return of line 242: the fetch error is recorded
\* and parse_calendar then runs on an empty document
handle_month_falls_through(year, month, fetched, doc) ==
    IF fetched = "error"
    THEN parse_calendar(error(MonthResult_new(year, month), ErrFetch), <<>>)
    ELSE parse_calendar(MonthResult_new(year, month), doc)

\* handle_month after the await: fetched = "error" is Err(err), anything
\* else Ok(cal) with cal parsing to doc
handle_month(year, month, fetched, doc) ==
    IF fetched = "error"
    THEN [ok |-> TRUE, res |-> error(MonthResult_new(year, month), ErrFetch)]
    ELSE parse_calendar(MonthResult_new(year, month), doc)

(***************************************************************************)
(* The documents a month's fetch may return.                               *)
(***************************************************************************)
\* the decimal digits of a day of the month
DayText(d) ==
    IF d < 10 THEN <<Digits[d + 1]>>
    ELSE <<Digits[(d \div 10) + 1], Digits[(d % 10) + 1]>>

\* a document with one cell per day; the cell of day 5 has the siblings kids
MonthDoc(year, month, kids) ==
    [d \in 1..DaysIn(year, month) |->
        <<TextNode(DayText(d))>> \o (IF d = 5 THEN kids ELSE <<>>)]

DocNames == {"clean", "gaps", "blank", "late"}

Doc(name, year, month) ==
    CASE name = "clean" ->
            \* every day once; day 5 as in the documentation's example
            MonthDoc(year, month,
                <<Br,
                  TextNode(<<"9", ":", "0", "0", "-", "1", "0", ":", "3", "0", " ", "L", "e", "s", "s", "o", "n">>), Br,
                  TextNode(<<"2", ":", "0", "0", "-", "3", ":", "0", "0", " ", "E", "x", "t", "r", "a">>),
                  ElementNode("font", "none", "red", <<<<"(", "m", "o", "v", "e", "d", ")">>>>)>>)
      [] name = "gaps" ->
            \* a spacer cell, day 2 with two events, day 1; the other days missing
            << <<>>,
               <<TextNode(<<"2">>), Br, TextNode(<<"O", "f", "f">>), Br,
                 TextNode(<<"7", "~", "8", " ", "O", "p", "e", "n">>)>>,
               <<TextNode(<<"1">>), Br, TextNode(<<"C", "l", "o", "s", "e", "d">>)>> >>
      [] name = "blank" ->
            \* day 1, then a cell holding only a space
            << <<TextNode(<<"1">>), Br, TextNode(<<"O", "f", "f">>)>>, <<TextNode(<<" ">>)>> >>
      [] name = "late" ->
            \* every day once; day 5 with an hour that is no hour of the day
            MonthDoc(year, month,
                <<Br, TextNode(<<"2", "5", "-", "2", "6", " ", "N", "i", "g", "h", "t">>)>>)
      [] OTHER -> <<>>

(***************************************************************************)
(* main.                                                                   *)
(***************************************************************************)
MonthIndices == 0..(MaxMonths - 1)

\* first_date + Months::new(k), as <<year, month>>
MonthOf(k) ==
    LET n == first_date[2] - 1 + k
    IN  <<first_date[1] + (n \div 12), (n % 12) + 1>>

NoResult == MonthResult_new(0, 0)

Line(text) == [line |-> text, rec |-> as_ics(FullDay(0, <<>>), 0, 0).rec]
VEvent(rec) == [line |-> "VEVENT", rec |-> rec]

Idle_Parse ==
    /\ res = NoResult
    /\ parsed_days = <<>>
    /\ pc = "idle"
    /\ day_num = 0
    /\ node = NoNode
    /\ ncells = 0
    /\ nchildren = 0
    /\ returned = EmptyBag
    /\ cell_events = 0

\* December 2023 puts a year change and a leap February among the months
FirstDates == {<<2023, 12>>, <<2024, 3>>}

Init_Main ==
    /\ first_date \in FirstDates
    /\ task = [i \in MonthIndices |-> "waiting"]
    /\ cal = [i \in MonthIndices |-> "pending"]
    /\ finished = <<>>
    /\ output = [i \in MonthIndices |-> NoResult]
    /\ results = <<>>
    /\ mainpc = "collect"
    /\ stdout = <<>>
    /\ printed = 0
    /\ had_errors = FALSE
    /\ exit_ok = TRUE
    /\ Idle_Parse

\* futures in the buffer: pulled from the stream and not yet yielded
InFlight == Cardinality({i \in MonthIndices : task[i] \in {"fetching", "done"}})

\* Buffered::poll_next first fills the buffer from the stream, and only then
\* polls the futures in it
Filled ==
    InFlight >= BUFFERED \/ \A i \in MonthIndices : task[i] # "waiting"

\* buffer_unordered: any finished future may be yielded
ReadyIndices_unordered == {i \in MonthIndices : task[i] = "done"}

\* FuturesOrdered yields the output with the next outgoing index only
ReadyIndices ==
    {i \in MonthIndices :
        task[i] = "done" /\ \A j \in MonthIndices : j < i => task[j] = "yielded"}

\* Buffered pulls the next handle_month future from the stream while fewer
\* than 16 are in flight; its first poll runs it up to the await of the fetch
Pull ==
    /\ mainpc = "collect"
    /\ InFlight < BUFFERED
    /\ \E i \in MonthIndices :
          /\ task[i] = "waiting"
          /\ \A j \in MonthIndices : j < i => task[j] # "waiting"
          /\ task' = [task EXCEPT ![i] = "fetching"]
    /\ UNCHANGED <<first_date, cal, finished, output, results, mainpc, stdout,
                   printed, had_errors, exit_ok>>
    /\ UNCHANGED pvars

\* handle_month of month i returned r, or panicked and took main with it
Returned(i, r) ==
    IF r.ok
    THEN /\ output' = [output EXCEPT ![i] = r.res]
         /\ task' = [task EXCEPT ![i] = "done"]
         /\ finished' = Append(finished, i)
         /\ UNCHANGED mainpc
    ELSE /\ mainpc' = "panicked"
         /\ UNCHANGED <<output, task, finished>>

\* the fetch of month i resolves to fetched; handle_month runs to its end
\* (nothing awaits after the fetch)
Complete(i, fetched) ==
    /\ mainpc = "collect"
    /\ Filled
    /\ task[i] = "fetching"
    /\ cal' = [cal EXCEPT ![i] = fetched]
    /\ Returned(i, handle_month(MonthOf(i)[1], MonthOf(i)[2], fetched,
                                Doc(fetched, MonthOf(i)[1], MonthOf(i)[2])))
    /\ UNCHANGED <<first_date, results, stdout, printed, had_errors, exit_ok>>
    /\ UNCHANGED pvars

\* the buffer yields a result and collect pushes it on the Vec
Yield ==
    /\ mainpc = "collect"
    /\ Filled
    /\ \E i \in ReadyIndices :
          /\ results' = Append(results, output[i])
          /\ task' = [task EXCEPT ![i] = "yielded"]
    /\ UNCHANGED <<first_date, cal, finished, output, mainpc, stdout, printed,
                   had_errors, exit_ok>>
    /\ UNCHANGED pvars

\* collect returned: the five header lines (lines 269-274)
Header ==
    /\ mainpc = "collect"
    /\ \A i \in MonthIndices : task[i] = "yielded"
    /\ stdout' = <<Line("BEGIN:VCALENDAR"), Line("VERSION:2.0"),
                   Line("PRODID:-//Shinbukan-ICS//Shinbukan-ICS//"),
                   Line("NAME:Shinbukan"), Line("X-WR-CALNAME:Shinbukan")>>
    /\ mainpc' = "print"
    /\ UNCHANGED <<first_date, task, cal, finished, output, results, printed,
                   had_errors, exit_ok>>
    /\ UNCHANGED pvars

\* one turn of the for loop of lines 275-286
PrintMonth ==
    /\ mainpc = "print"
    /\ printed < Len(results)
    /\ LET r == results[printed + 1]
           ics == events_as_ics(r)
       IN  IF ics.ok
           THEN /\ stdout' = stdout \o [k \in 1..Len(ics.recs) |-> VEvent(ics.recs[k])]
                /\ had_errors' = (had_errors \/ r.errors # <<>>)
                /\ printed' = printed + 1
                /\ UNCHANGED mainpc
           ELSE /\ mainpc' = "panicked"
                /\ UNCHANGED <<stdout, had_errors, printed>>
    /\ UNCHANGED <<first_date, task, cal, finished, output, results, exit_ok>>
    /\ UNCHANGED pvars

\* lines 287-293
Finish ==
    /\ mainpc = "print"
    /\ printed = Len(results)
    /\ stdout' = Append(stdout, Line("END:VCALENDAR"))
    /\ exit_ok' = ~had_errors
    /\ mainpc' = "exited"
    /\ UNCHANGED <<first_date, task, cal, finished, output, results, printed,
                   had_errors>>
    /\ UNCHANGED pvars

Next_Main ==
    \/ Pull
    \/ \E i \in MonthIndices, fetched \in {"error"} \cup DocNames :
          Complete(i, fetched)
    \/ Yield
    \/ Header
    \/ PrintMonth
    \/ Finish

SpecMain == Init_Main /\ [][Next_Main]_vars

(***************************************************************************)
(* Properties of main and handle_month, checked under SpecMain.            *)
(***************************************************************************)
HasReturned(i) == task[i] \in {"done", "yielded"}

\* this step is handle_month of month i returning
Returns(i) == task[i] = "fetching" /\ task'[i] = "done"

\* C8: a month whose fetch failed holds exactly the transport error and no
\* event (parse_calendar never ran: no coverage error); its return changes
\* no other month's result; a result once returned never changes; and a
\* month whose fetch succeeded holds what parsing its own document gives.
C8_FetchFailure ==
    [][\A i \in MonthIndices :
        /\ (Returns(i) /\ cal'[i] = "error") =>
              /\ output'[i].events = <<>>
              /\ output'[i].errors = <<ErrFetch>>
              /\ <<output'[i].year, output'[i].month>> = MonthOf(i)
        /\ Returns(i) =>
              \A j \in MonthIndices \ {i} : output'[j] = output[j]
        /\ HasReturned(i) => output'[i] = output[i] /\ cal'[i] = cal[i]
        /\ (Returns(i) /\ cal'[i] # "error") =>
              output'[i] =
                  parse_calendar(
                      MonthResult_new(MonthOf(i)[1], MonthOf(i)[2]),
                      Doc(cal'[i], MonthOf(i)[1], MonthOf(i)[2])).res]_vars

\* the run ended with a month whose fetch failed between two months that
\* were parsed and have events
C8_Witness ==
    /\ mainpc = "exited"
    /\ \E i, j, k \in MonthIndices :
          /\ i < j /\ j < k
          /\ cal[j] = "error" /\ output[j].errors = <<ErrFetch>>
          /\ cal[i] = "clean" /\ output[i].events # <<>>
          /\ cal[k] = "gaps" /\ output[k].events # <<>>

IsVEvent(l) == l.line = "VEVENT"

\* the event records of months 0..k-1: month after month, and inside a
\* month in the order the events were pushed
RECURSIVE RecordsInOrder(_)
RecordsInOrder(k) ==
    IF k = 0 THEN <<>>
    ELSE RecordsInOrder(k - 1) \o
         [j \in 1..Len(output[k - 1].events) |->
            VEvent(as_ics(output[k - 1].events[j],
                          MonthOf(k - 1)[1], MonthOf(k - 1)[2]).rec)]

\* C9: whatever the order in which the handle_month tasks return, collect
\* holds the months' results in the requested order, each written by its
\* own task, and the event records printed so far are those of the first
\* months, month after month, in insertion order inside a month.
C9_OrderStable ==
    /\ \A k \in 1..Len(results) :
          /\ results[k] = output[k - 1]
          /\ <<results[k].year, results[k].month>> = MonthOf(k - 1)
    /\ SelectSeq(stdout, IsVEvent) = RecordsInOrder(printed)

\* the run ended; a later month's task had returned before an earlier one's,
\* and both have their events on the output
C9_Witness ==
    /\ mainpc = "exited"
    /\ \E a, b \in 1..Len(finished) :
          /\ a < b /\ finished[a] > finished[b]
          /\ output[finished[a]].events # <<>>
          /\ output[finished[b]].events # <<>>
    /\ Len(SelectSeq(stdout, IsVEvent)) >= 4

\* C10: every run ends with one BEGIN:VCALENDAR .. END:VCALENDAR envelope
\* around every event parsed in any month, and fails exactly when some
\* month has an error.
C10_AlwaysEmitsAll ==
    mainpc \in {"exited", "panicked"} =>
        /\ stdout # <<>>
        /\ stdout[1] = Line("BEGIN:VCALENDAR")
        /\ stdout[Len(stdout)] = Line("END:VCALENDAR")
        /\ SelectSeq(stdout, IsVEvent) = RecordsInOrder(MaxMonths)
        /\ exit_ok = (\A i \in MonthIndices : output[i].errors = <<>>)
=============================================================================
